---- MODULE Spec2Model ----
(***************************************************************************)
(* Model of the outbound voice agent: the ConversationRelay WebSocket      *)
(* endpoint and its SESSIONS map (main.py), the supervisor/worker graph    *)
(* behind get_agent_response (agents.py) and the SessionManager store      *)
(* (session.py).                                                           *)
(*                                                                         *)
(* Spec      : the HTTP/WebSocket application and the agent graph.         *)
(* SpecStore : the SessionManager under an arbitrary caller and a clock.   *)
(* SpecGraph : the compiled graph invoked again on the state it returned.  *)
(* SpecEither: a behaviour of Spec or a behaviour of SpecStore.            *)
(***************************************************************************)
EXTENDS Integers, Sequences, FiniteSets, TLC

(***************************************************************************)
(* Bounds of the model.                                                    *)
(***************************************************************************)
NumCalls == 2
NumConns == 2
MaxTurns == 2
MaxTime == 7
MaxRounds == 3

CallSids == 1..NumCalls
Conns == 1..NumConns

(***************************************************************************)
(* Values.                                                                 *)
(***************************************************************************)
Absent == "<absent>"
NotAString == "<not-a-string>"
Blank == "   "
RawTexts == {"hello", " later "}
PromptValues == {Absent, Blank, "hello"}
TranscriptValues == {Absent, NotAString, " later "}

\* str.strip() on the strings the model uses
Strip(t) ==
    CASE t = Blank -> ""
      [] t = " later " -> "later"
      [] OTHER -> t

\* inbound frames: raw text that is not JSON, JSON that is an array or a
\* scalar, and JSON objects with a voicePrompt member (missing, blank or
\* text) and a result.alternatives[0].transcript member (missing, not a
\* string, or text with surrounding blanks)
Payloads ==
    [syntax : {"invalid", "array", "scalar"}, voicePrompt : {Absent}, transcript : {Absent}]
    \cup [syntax : {"object"}, voicePrompt : PromptValues, transcript : TranscriptValues]

Apology == "I apologize, but I encountered an error. Could you please repeat that?"
NoAIText == "I didn't understand that. Could you please repeat?"
Replies == {"reply"}

ToolNames == {"gather_information", "provide_service_info", "qualify_customer",
              "schedule_callback", "end_call"}
ServiceTypes == {"AI"}

\* what the tool-calling model call of the supervisor can produce: an error,
\* a response without tool call, or a first tool call with a name and
\* (possibly) a service_type argument
SupervisorReplies ==
    [kind : {"error", "none"}, name : {Absent}, service_type : {Absent}]
    \cup [kind : {"tool"}, name : ToolNames \cup {"unknown_tool"}, service_type : {Absent}]
    \cup [kind : {"tool"}, name : {"provide_service_info"}, service_type : ServiceTypes]

\* what the model call of a worker can produce
WorkerReplies ==
    [kind : {"error"}, content : {Absent}] \cup [kind : {"text"}, content : Replies]

HumanMessage(t) == [type |-> "human", content |-> t]
AIMessage(t) == [type |-> "ai", content |-> t]

RECURSIVE SelectType(_, _)
SelectType(msgs, ty) ==
    IF msgs = <<>> THEN <<>>
    ELSE IF Head(msgs).type = ty
         THEN <<Head(msgs)>> \o SelectType(Tail(msgs), ty)
         ELSE SelectType(Tail(msgs), ty)

\* how a node ends: its model call raised, it returned after its model call,
\* or it returned without making one
Raise(state) == [state |-> state, raised |-> TRUE, calls |-> 1]
Return(state) == [state |-> state, raised |-> FALSE, calls |-> 1]
ReturnEarly(state) == [state |-> state, raised |-> FALSE, calls |-> 0]

\* StateGraph(AgentState): what a node returns reaches the next node through
\* the keys AgentState declares; service_type is not one of them
Channels(state) == [state EXCEPT !.service_type = Absent]

(***************************************************************************)
(* agents.py: the supervisor and the five worker nodes.  A node takes the  *)
(* state and the outcome of its model call and returns the state it leaves *)
(* behind together with whether it raised and the number of model calls it *)
(* made.                                                                   *)
(***************************************************************************)
\* a supervisor that also moves the stage on when it chooses a worker
supervisor_node_sets_stage(state, r) ==
    IF r.kind = "error" THEN Raise(state)
    ELSE LET next_worker == IF r.kind = "tool" THEN r.name ELSE "provide_service_info"
             stored == IF r.kind = "tool" /\ r.service_type # Absent
                       THEN [state EXCEPT !.service_type = r.service_type]
                       ELSE state
         IN Return([stored EXCEPT !.next_worker = next_worker,
                                  !.conversation_stage = "discovery"])

\* a supervisor that ignores the tool call and always takes its default
supervisor_node_ignore_tool(state, r) ==
    IF r.kind = "error" THEN Raise(state)
    ELSE Return([state EXCEPT !.next_worker = "provide_service_info"])

supervisor_node(state, r) ==
    IF r.kind = "error" THEN Raise(state)
    ELSE LET next_worker == IF r.kind = "tool" THEN r.name ELSE "provide_service_info"
             stored == IF r.kind = "tool" /\ r.service_type # Absent
                       THEN [state EXCEPT !.service_type = r.service_type]
                       ELSE state
         IN Return([stored EXCEPT !.next_worker = next_worker])

\* a discovery handler that asks again whatever info_gathered is
information_gathering_node_ask_again(state, r) ==
    IF r.kind = "error" THEN Raise(state)
    ELSE Return([state EXCEPT !.messages = Append(@, AIMessage(r.content)),
                              !.info_gathered = TRUE,
                              !.conversation_stage = "discovery"])

information_gathering_node(state, r) ==
    IF state.info_gathered
    THEN ReturnEarly([state EXCEPT !.next_worker = "provide_service_info"])
    ELSE IF r.kind = "error" THEN Raise(state)
    ELSE Return([state EXCEPT !.messages = Append(@, AIMessage(r.content)),
                              !.info_gathered = TRUE,
                              !.conversation_stage = "discovery"])

\* a service-info handler that records the service type on every call
service_info_node_always_append(state, r) ==
    IF r.kind = "error" THEN Raise(state)
    ELSE LET service_type == IF state.service_type = Absent THEN "General"
                             ELSE state.service_type
         IN Return([state EXCEPT !.discussed_services = Append(@, service_type),
                                 !.messages = Append(@, AIMessage(r.content)),
                                 !.conversation_stage = "presentation"])

service_info_node(state, r) ==
    IF r.kind = "error" THEN Raise(state)
    ELSE LET service_type == IF state.service_type = Absent THEN "General"
                             ELSE state.service_type
             discussed == IF \E i \in 1..Len(state.discussed_services) :
                                 state.discussed_services[i] = service_type
                          THEN state.discussed_services
                          ELSE Append(state.discussed_services, service_type)
         IN Return([state EXCEPT !.discussed_services = discussed,
                                 !.messages = Append(@, AIMessage(r.content)),
                                 !.conversation_stage = "presentation"])

\* a qualification handler that marks the lead as qualified
qualification_node_marks_lead(state, r) ==
    IF r.kind = "error" THEN Raise(state)
    ELSE Return([state EXCEPT !.messages = Append(@, AIMessage(r.content)),
                              !.conversation_stage = "qualification",
                              !.is_qualified_lead = TRUE])

qualification_node(state, r) ==
    IF r.kind = "error" THEN Raise(state)
    ELSE Return([state EXCEPT !.messages = Append(@, AIMessage(r.content)),
                              !.conversation_stage = "qualification"])

\* a scheduling handler that forgets the services discussed so far
scheduling_node_forget_services(state, r) ==
    IF r.kind = "error" THEN Raise(state)
    ELSE Return([state EXCEPT !.messages = Append(@, AIMessage(r.content)),
                              !.conversation_stage = "closing",
                              !.should_end = TRUE,
                              !.discussed_services = <<>>])

\* a scheduling handler that marks the call as closing before its model call
scheduling_node_assign_first(state, r) ==
    LET marked == [state EXCEPT !.conversation_stage = "closing", !.should_end = TRUE]
    IN IF r.kind = "error" THEN Raise(marked)
       ELSE Return([marked EXCEPT !.messages = Append(@, AIMessage(r.content))])

scheduling_node(state, r) ==
    IF r.kind = "error" THEN Raise(state)
    ELSE Return([state EXCEPT !.messages = Append(@, AIMessage(r.content)),
                              !.conversation_stage = "closing",
                              !.should_end = TRUE])

end_node(state, r) ==
    IF r.kind = "error" THEN Raise(state)
    ELSE Return([state EXCEPT !.messages = Append(@, AIMessage(r.content)),
                              !.should_end = TRUE])

\* a routing whose default is the discovery handler
route_supervisor_default_gather(state) ==
    CASE state.next_worker = "gather_information" -> "gather_information"
      [] state.next_worker = "provide_service_info" -> "service_info"
      [] state.next_worker = "qualify_customer" -> "qualification"
      [] state.next_worker = "schedule_callback" -> "scheduling"
      [] state.next_worker = "end_call" -> "end"
      [] OTHER -> "gather_information"

route_supervisor(state) ==
    CASE state.next_worker = "gather_information" -> "gather_information"
      [] state.next_worker = "provide_service_info" -> "service_info"
      [] state.next_worker = "qualify_customer" -> "qualification"
      [] state.next_worker = "schedule_callback" -> "scheduling"
      [] state.next_worker = "end_call" -> "end"
      [] OTHER -> "service_info"

\* a worker edge that goes back to the supervisor until should_end is set
should_continue_until_should_end(state) ==
    IF state.should_end THEN "end" ELSE "supervisor"

should_continue(state) == "end"

\* the compiled graph, entered at the supervisor: the supervisor, the worker
\* route_supervisor names, then END for the end node and whatever
\* should_continue names for the other workers.  round counts the supervisor
\* runs so far; a run that would pass MaxRounds ends in the graph's
\* recursion error.
\*   node        the last worker entered ("none" when the supervisor raised)
\*   calls       the number of model calls that worker made
\*   supervised  the state the first supervisor run returned
\*   supervisors, workers, model_calls
\*               the number of supervisor runs, worker runs and model calls
RECURSIVE graph_run(_, _, _, _)
graph_run(state, sup, rep, round) ==
    LET s == supervisor_node(state, sup)
    IN IF s.raised
       THEN [state |-> s.state, raised |-> TRUE, node |-> "none", calls |-> 0,
             supervised |-> s.state,
             supervisors |-> 1, workers |-> 0, model_calls |-> s.calls]
       ELSE LET node == route_supervisor(s.state)
                given == Channels(s.state)
                w == CASE node = "gather_information" -> information_gathering_node(given, rep)
                       [] node = "service_info" -> service_info_node(given, rep)
                       [] node = "qualification" -> qualification_node(given, rep)
                       [] node = "scheduling" -> scheduling_node(given, rep)
                       [] node = "end" -> end_node(given, rep)
                once == [state |-> Channels(w.state), raised |-> w.raised, node |-> node,
                         calls |-> w.calls, supervised |-> s.state,
                         supervisors |-> 1, workers |-> 1,
                         model_calls |-> s.calls + w.calls]
            IN IF w.raised \/ node = "end" \/ should_continue(w.state) = "end"
               THEN once
               ELSE IF round >= MaxRounds THEN [once EXCEPT !.raised = TRUE]
               ELSE LET rest == graph_run(Channels(w.state), sup, rep, round + 1)
                    IN [rest EXCEPT !.supervised = s.state,
                                    !.supervisors = @ + 1,
                                    !.workers = @ + 1,
                                    !.model_calls = @ + s.calls + w.calls]

\* agent.invoke(state)
agent_invoke(state, sup, rep) == graph_run(state, sup, rep, 1)

\* conversion of the legacy history (role/content dicts) to messages
RECURSIVE ToMessages(_)
ToMessages(history) ==
    IF history = <<>> THEN <<>>
    ELSE LET msg == Head(history)
         IN (CASE msg.role = "user" -> <<HumanMessage(msg.content)>>
               [] msg.role = "assistant" -> <<AIMessage(msg.content)>>
               [] OTHER -> <<>>) \o ToMessages(Tail(history))

\* a turn state that starts with info_gathered set
TurnState_info_gathered(messages, call_sid) ==
    [messages |-> messages,
     next_worker |-> "gather_information",
     customer_info |-> <<>>,
     pain_points |-> <<>>,
     info_gathered |-> TRUE,
     qualification_data |-> <<>>,
     is_qualified_lead |-> FALSE,
     discussed_services |-> <<>>,
     conversation_stage |-> IF messages = <<>> THEN "greeting" ELSE "ongoing",
     should_end |-> FALSE,
     turn_count |-> Len(SelectType(messages, "human")),
     call_sid |-> call_sid,
     service_type |-> Absent]

\* the state get_agent_response builds for every invocation
TurnState(messages, call_sid) ==
    [messages |-> messages,
     next_worker |-> "gather_information",
     customer_info |-> <<>>,
     pain_points |-> <<>>,
     info_gathered |-> FALSE,
     qualification_data |-> <<>>,
     is_qualified_lead |-> FALSE,
     discussed_services |-> <<>>,
     conversation_stage |-> IF messages = <<>> THEN "greeting" ELSE "ongoing",
     should_end |-> FALSE,
     turn_count |-> Len(SelectType(messages, "human")),
     call_sid |-> call_sid,
     service_type |-> Absent]

\* a get_agent_response without its try/except: an exception of the graph
\* leaves the function
get_agent_response_no_except(user_message, conversation_history, sup, rep) ==
    LET messages == ToMessages(conversation_history) \o <<HumanMessage(user_message)>>
        state == TurnState(messages, "unknown")
        result == agent_invoke(state, sup, rep)
        ai_messages == SelectType(result.state.messages, "ai")
    IN [response |-> IF result.raised THEN Absent
                     ELSE IF ai_messages # <<>> THEN ai_messages[Len(ai_messages)].content
                     ELSE NoAIText,
        escaped |-> result.raised,
        failed |-> result.raised,
        node |-> result.node,
        supervisors |-> result.supervisors,
        workers |-> result.workers,
        model_calls |-> result.model_calls,
        sup |-> sup,
        given |-> state,
        final |-> result.state]

\* get_agent_response: the reply text and whether an exception left the
\* function, with the supervisor's model response (sup), the state handed to
\* the graph (given), the state the graph left (final), the worker entered
\* and whether the except branch was taken
get_agent_response(user_message, conversation_history, sup, rep) ==
    LET messages == ToMessages(conversation_history) \o <<HumanMessage(user_message)>>
        state == TurnState(messages, "unknown")
        result == agent_invoke(state, sup, rep)
        ai_messages == SelectType(result.state.messages, "ai")
    IN [response |-> IF result.raised THEN Apology
                     ELSE IF ai_messages # <<>> THEN ai_messages[Len(ai_messages)].content
                     ELSE NoAIText,
        escaped |-> FALSE,
        failed |-> result.raised,
        node |-> result.node,
        supervisors |-> result.supervisors,
        workers |-> result.workers,
        model_calls |-> result.model_calls,
        sup |-> sup,
        given |-> state,
        final |-> result.state]

(***************************************************************************)
(* main.py: the application state.                                         *)
(*   SESSIONS   call_sid -> session dict (call_sid, phone_number, history) *)
(*   app        "running" until the lifespan shutdown                      *)
(*   pc         position of each WebSocket handler coroutine               *)
(*   conn_sid   the call_sid path parameter of each connection             *)
(*   raw        the frame a handler has received and not yet processed     *)
(*   user_text  the utterance of the turn a handler is in                  *)
(*   sent       number of text frames a handler has sent                   *)
(*   loop       the coroutine running on the event loop (Free between      *)
(*              awaits)                                                    *)
(*   turns      per call, number of inbound frames that carried user text  *)
(*   lastTurn   while a handler is between get_agent_response and the      *)
(*              append of the reply: the call, what get_agent_response was *)
(*              given and what it produced                                 *)
(*   lastFinal  per call, the info_gathered and should_end flags of the    *)
(*              state the graph returned in the call's last finished turn, *)
(*              and whether that turn ran the end handler                  *)
(* session.py: the SessionManager.                                         *)
(*   sessions   call_sid -> entry (state, created_at, last_accessed)       *)
(*   now        the clock, in minutes                                      *)
(*   ret        the last call made on the manager, the time it was made,   *)
(*              whether its call_sid had an entry then, and its return     *)
(*              value                                                      *)
(* The carried state of the compiled graph:                                *)
(*   gstate     the AgentState handed from one agent invocation to the     *)
(*              next                                                       *)
(*   ginvoke    the state the last agent invocation was given, the         *)
(*              supervisor's model response, the state the supervisor      *)
(*              returned, the worker it entered and the number of model    *)
(*              calls that worker made                                     *)
(***************************************************************************)
VARIABLES SESSIONS, app, pc, conn_sid, raw, user_text, sent, loop, turns, lastTurn,
          lastFinal, sessions, now, ret, gstate, ginvoke

wsVars == <<SESSIONS, app, pc, conn_sid, raw, user_text, sent, loop, turns, lastTurn,
            lastFinal>>
storeVars == <<sessions, now, ret>>
vars == <<SESSIONS, app, pc, conn_sid, raw, user_text, sent, loop, turns, lastTurn,
          lastFinal, sessions, now, ret, gstate, ginvoke>>
graphVars == <<gstate, ginvoke>>

Free == 0
NoSid == 0
NoRaw == [syntax |-> "none", voicePrompt |-> Absent, transcript |-> Absent]
NoText == ""
NoTurn == [call_sid |-> NoSid]
Phone == "+15550100"
EmptyMap == [x \in {} |-> x]

NewSession(call_sid, phone_number) ==
    [call_sid |-> call_sid, phone_number |-> phone_number, history |-> <<>>]

\* the user text the receive loop extracts from a parsed object ("" when none)
ExtractUserText(msg) ==
    LET fromPrompt == IF msg.voicePrompt \notin {Absent, NotAString}
                         /\ Strip(msg.voicePrompt) # ""
                      THEN Strip(msg.voicePrompt) ELSE NoText
    IN IF fromPrompt # NoText THEN fromPrompt
       ELSE IF msg.transcript \notin {Absent, NotAString} /\ Strip(msg.transcript) # ""
            THEN Strip(msg.transcript) ELSE NoText

\* what the body of the receive loop does with a frame:
\*   "continue"  json.loads failed, next iteration
\*   "raise"     the frame parsed to something that is not a dict: the
\*               membership test or msg.get raises, the loop is left
\*   "skip"      no user text, next iteration
\*   "turn"      user text found
FrameOutcome(frame) ==
    CASE frame.syntax = "invalid" -> "continue"
      [] frame.syntax \in {"array", "scalar"} -> "raise"
      [] frame.syntax = "object" /\ ExtractUserText(frame) = NoText -> "skip"
      [] OTHER -> "turn"

\* the history entries appended for the agent's reply
AssistantEntriesUnlessFallback(agent_response) ==
    IF agent_response = Apology THEN <<>>
    ELSE <<[role |-> "assistant", content |-> agent_response]>>

AssistantEntries(agent_response) ==
    <<[role |-> "assistant", content |-> agent_response]>>

\* get_agent_response is called without await: the handler keeps the event
\* loop from the append of the utterance to the append of the reply
LoopIfAwaited(c) == Free

LoopDuringAgentCall(c) == c

WsInit ==
    /\ SESSIONS = EmptyMap
    /\ app = "running"
    /\ pc = [c \in Conns |-> "closed"]
    /\ conn_sid = [c \in Conns |-> NoSid]
    /\ raw = [c \in Conns |-> NoRaw]
    /\ user_text = [c \in Conns |-> NoText]
    /\ sent = [c \in Conns |-> 0]
    /\ loop = Free
    /\ turns = [s \in CallSids |-> 0]
    /\ lastTurn = NoTurn
    /\ lastFinal = [s \in CallSids |-> [info_gathered |-> FALSE, should_end |-> FALSE,
                                         ended |-> FALSE]]

RECURSIVE SumOver(_, _)
SumOver(f, S) ==
    IF S = {} THEN 0
    ELSE LET x == CHOOSE y \in S : TRUE IN f[x] + SumOver(f, S \ {x})

\* number of turns started so far, over all calls
TotalTurns == SumOver(turns, CallSids)

\* POST /call/initiate: Twilio creates the call and returns a new SID
initiate_call(s) ==
    /\ app = "running" /\ loop = Free
    /\ s \notin DOMAIN SESSIONS
    /\ SESSIONS' = [x \in DOMAIN SESSIONS \cup {s} |->
                       IF x = s THEN NewSession(s, Phone) ELSE SESSIONS[x]]
    /\ UNCHANGED <<app, pc, conn_sid, raw, user_text, sent, loop, turns, lastTurn, lastFinal>>

\* a connect that always starts the call's session afresh
Connect_reset(c, s) ==
    /\ app = "running" /\ loop = Free
    /\ pc[c] = "closed"
    /\ SESSIONS' = [x \in DOMAIN SESSIONS \cup {s} |->
                       IF x = s THEN NewSession(s, "unknown") ELSE SESSIONS[x]]
    /\ pc' = [pc EXCEPT ![c] = "receive"]
    /\ conn_sid' = [conn_sid EXCEPT ![c] = s]
    /\ UNCHANGED <<app, raw, user_text, sent, loop, turns, lastTurn, lastFinal>>

\* /ws/{call_sid}: accept, get or create the session, reach receive_text
Connect(c, s) ==
    /\ app = "running" /\ loop = Free
    /\ pc[c] = "closed"
    /\ SESSIONS' = IF s \in DOMAIN SESSIONS THEN SESSIONS
                   ELSE [x \in DOMAIN SESSIONS \cup {s} |->
                            IF x = s THEN NewSession(s, "unknown") ELSE SESSIONS[x]]
    /\ pc' = [pc EXCEPT ![c] = "receive"]
    /\ conn_sid' = [conn_sid EXCEPT ![c] = s]
    /\ UNCHANGED <<app, raw, user_text, sent, loop, turns, lastTurn, lastFinal>>

\* receive_text returns a frame
Receive(c, frame) ==
    /\ loop = Free
    /\ pc[c] = "receive"
    /\ FrameOutcome(frame) = "turn" => TotalTurns < MaxTurns
    /\ raw' = [raw EXCEPT ![c] = frame]
    /\ pc' = [pc EXCEPT ![c] = "parse"]
    /\ loop' = c
    /\ UNCHANGED <<SESSIONS, app, conn_sid, user_text, sent, turns, lastTurn, lastFinal>>

\* the loop body up to the call of get_agent_response
Process(c) ==
    /\ loop = c
    /\ pc[c] = "parse"
    /\ LET outcome == FrameOutcome(raw[c])
           s == conn_sid[c]
           text == ExtractUserText(raw[c])
       IN /\ raw' = [raw EXCEPT ![c] = NoRaw]
          /\ CASE outcome \in {"continue", "skip"} ->
                    /\ pc' = [pc EXCEPT ![c] = "receive"]
                    /\ loop' = Free
                    /\ UNCHANGED <<SESSIONS, conn_sid, user_text, sent, turns>>
               [] outcome = "raise" ->
                    /\ pc' = [pc EXCEPT ![c] = "closed"]
                    /\ conn_sid' = [conn_sid EXCEPT ![c] = NoSid]
                    /\ sent' = [sent EXCEPT ![c] = 0]
                    /\ loop' = Free
                    /\ UNCHANGED <<SESSIONS, user_text, turns>>
               [] outcome = "turn" ->
                    /\ SESSIONS' = [SESSIONS EXCEPT ![s].history =
                                       Append(@, [role |-> "user", content |-> text])]
                    /\ user_text' = [user_text EXCEPT ![c] = text]
                    /\ turns' = [turns EXCEPT ![s] = @ + 1]
                    /\ pc' = [pc EXCEPT ![c] = "agent"]
                    /\ loop' = LoopDuringAgentCall(c)
                    /\ UNCHANGED <<conn_sid, sent>>
    /\ UNCHANGED <<app, lastTurn, lastFinal>>

\* get_agent_response returns
AgentTurn(c, sup, rep) ==
    /\ loop = LoopDuringAgentCall(c)
    /\ pc[c] = "agent"
    /\ LET s == conn_sid[c]
       IN lastTurn' = [call_sid |-> s,
                       out |-> get_agent_response(user_text[c], SESSIONS[s].history,
                                                  sup, rep)]
    /\ pc' = [pc EXCEPT ![c] = "reply"]
    /\ UNCHANGED <<SESSIONS, app, conn_sid, raw, user_text, sent, loop, turns, lastFinal>>

\* a handler that appends the reply and reads the next frame without
\* sending it
Reply_without_send(c) ==
    /\ loop = LoopDuringAgentCall(c)
    /\ pc[c] = "reply"
    /\ SESSIONS' = [SESSIONS EXCEPT ![conn_sid[c]].history =
                       @ \o AssistantEntries(lastTurn.out.response)]
    /\ lastTurn' = NoTurn
    /\ user_text' = [user_text EXCEPT ![c] = NoText]
    /\ pc' = [pc EXCEPT ![c] = "receive"]
    /\ loop' = Free
    /\ UNCHANGED <<app, conn_sid, raw, sent, turns, lastFinal>>

\* the append of the reply, up to the await of send_text; an exception out
\* of get_agent_response would reach the handler's except Exception instead
Reply(c) ==
    /\ loop = LoopDuringAgentCall(c)
    /\ pc[c] = "reply"
    /\ LET s == conn_sid[c]
           agent_response == lastTurn.out.response
       IN IF lastTurn.out.escaped
          THEN /\ pc' = [pc EXCEPT ![c] = "closed"]
               /\ conn_sid' = [conn_sid EXCEPT ![c] = NoSid]
               /\ sent' = [sent EXCEPT ![c] = 0]
               /\ UNCHANGED <<SESSIONS, lastFinal>>
          ELSE /\ SESSIONS' = [SESSIONS EXCEPT ![s].history =
                                   @ \o AssistantEntries(agent_response)]
               /\ lastFinal' = [lastFinal EXCEPT ![s] =
                                   IF lastTurn.out.failed THEN @
                                   ELSE [info_gathered |-> lastTurn.out.final.info_gathered,
                                         should_end |-> lastTurn.out.final.should_end,
                                         ended |-> lastTurn.out.node = "end"]]
               /\ pc' = [pc EXCEPT ![c] = "send"]
               /\ UNCHANGED <<conn_sid, sent>>
    /\ lastTurn' = NoTurn
    /\ user_text' = [user_text EXCEPT ![c] = NoText]
    /\ loop' = Free
    /\ UNCHANGED <<app, raw, turns>>

\* send_text completes; the handler is back at receive_text
Send(c) ==
    /\ loop = Free
    /\ pc[c] = "send"
    /\ sent' = [sent EXCEPT ![c] = @ + 1]
    /\ pc' = [pc EXCEPT ![c] = "receive"]
    /\ UNCHANGED <<SESSIONS, app, conn_sid, raw, user_text, loop, turns, lastTurn, lastFinal>>

\* receive_text or send_text raises WebSocketDisconnect: the handler returns
\* and its locals are gone
Disconnect(c) ==
    /\ loop = Free
    /\ pc[c] \in {"receive", "send"}
    /\ pc' = [pc EXCEPT ![c] = "closed"]
    /\ conn_sid' = [conn_sid EXCEPT ![c] = NoSid]
    /\ sent' = [sent EXCEPT ![c] = 0]
    /\ UNCHANGED <<SESSIONS, app, raw, user_text, loop, turns, lastTurn, lastFinal>>

\* lifespan shutdown, after the server has closed its connections
Shutdown ==
    /\ app = "running" /\ loop = Free
    /\ \A c \in Conns : pc[c] = "closed"
    /\ app' = "stopped"
    /\ SESSIONS' = EmptyMap
    /\ UNCHANGED <<pc, conn_sid, raw, user_text, sent, loop, turns, lastTurn, lastFinal>>

\* GET /calls/active
get_active_calls == DOMAIN SESSIONS

(***************************************************************************)
(* session.py: SessionManager.  Times are minutes on the clock now;        *)
(* created_at is written by create_session and read nowhere, it is left    *)
(* out of the entry.                                                       *)
(***************************************************************************)
TimeoutMinutes == 5
None == [none |-> TRUE]

initial_state(call_sid) ==
    [messages |-> <<>>,
     next_worker |-> "gather_information",
     customer_info |-> <<>>,
     pain_points |-> <<>>,
     info_gathered |-> FALSE,
     qualification_data |-> <<>>,
     is_qualified_lead |-> FALSE,
     discussed_services |-> <<>>,
     conversation_stage |-> "greeting",
     should_end |-> FALSE,
     turn_count |-> 0,
     call_sid |-> call_sid,
     service_type |-> Absent]

\* the states a caller saves with update_session
SavedStates(call_sid) ==
    {[initial_state(call_sid) EXCEPT
         !.messages = <<HumanMessage("hello"), AIMessage("reply")>>,
         !.info_gathered = TRUE,
         !.conversation_stage = "discovery",
         !.turn_count = 1]}

\* a get_session that already treats an entry idle for exactly the timeout as
\* expired
ExpiredOnGetAtTimeout(entry, t) == t - entry.last_accessed >= TimeoutMinutes

\* the expiry test of get_session
ExpiredOnGet(entry, t) == t - entry.last_accessed > TimeoutMinutes

\* a cleanup that already removes an entry idle for exactly the timeout
ExpiredOnCleanupAtTimeout(entry, t) == t - entry.last_accessed >= TimeoutMinutes

\* the expiry test of cleanup_expired_sessions
ExpiredOnCleanup(entry, t) == t - entry.last_accessed > TimeoutMinutes

Without(f, gone) == [x \in DOMAIN f \ gone |-> f[x]]

StoreInit ==
    /\ sessions = EmptyMap
    /\ now = 0
    /\ ret = [op |-> "init", call_sid |-> NoSid, at |-> now, found |-> FALSE, value |-> None]

\* a create_session that keeps the entry an id already has
create_session_keep_existing(call_sid) ==
    /\ sessions' = IF call_sid \in DOMAIN sessions THEN sessions
                   ELSE [x \in DOMAIN sessions \cup {call_sid} |->
                            IF x = call_sid
                            THEN [state |-> initial_state(call_sid), last_accessed |-> now]
                            ELSE sessions[x]]
    /\ ret' = [op |-> "create_session", call_sid |-> call_sid, at |-> now,
               found |-> call_sid \in DOMAIN sessions,
               value |-> IF call_sid \in DOMAIN sessions THEN sessions[call_sid].state
                         ELSE initial_state(call_sid)]
    /\ UNCHANGED now

create_session(call_sid) ==
    /\ sessions' = [x \in DOMAIN sessions \cup {call_sid} |->
                       IF x = call_sid
                       THEN [state |-> initial_state(call_sid), last_accessed |-> now]
                       ELSE sessions[x]]
    /\ ret' = [op |-> "create_session", call_sid |-> call_sid, at |-> now,
               found |-> call_sid \in DOMAIN sessions,
               value |-> initial_state(call_sid)]
    /\ UNCHANGED now

get_session(call_sid) ==
    /\ IF call_sid \notin DOMAIN sessions
       THEN /\ ret' = [op |-> "get_session", call_sid |-> call_sid, at |-> now,
               found |-> call_sid \in DOMAIN sessions, value |-> None]
            /\ UNCHANGED sessions
       ELSE IF ExpiredOnGet(sessions[call_sid], now)
       THEN /\ sessions' = Without(sessions, {call_sid})
            /\ ret' = [op |-> "get_session", call_sid |-> call_sid, at |-> now,
               found |-> call_sid \in DOMAIN sessions, value |-> None]
       ELSE /\ sessions' = [sessions EXCEPT ![call_sid].last_accessed = now]
            /\ ret' = [op |-> "get_session", call_sid |-> call_sid, at |-> now,
               found |-> call_sid \in DOMAIN sessions,
                       value |-> sessions[call_sid].state]
    /\ UNCHANGED now

\* an update_session that stores the state whether or not the id has an entry
update_session_upsert(call_sid, state) ==
    /\ sessions' = [x \in DOMAIN sessions \cup {call_sid} |->
                       IF x = call_sid THEN [state |-> state, last_accessed |-> now]
                       ELSE sessions[x]]
    /\ ret' = [op |-> "update_session", call_sid |-> call_sid, at |-> now,
               found |-> call_sid \in DOMAIN sessions, value |-> None]
    /\ UNCHANGED now

update_session(call_sid, state) ==
    /\ sessions' = IF call_sid \in DOMAIN sessions
                   THEN [sessions EXCEPT ![call_sid] =
                            [state |-> state, last_accessed |-> now]]
                   ELSE sessions
    /\ ret' = [op |-> "update_session", call_sid |-> call_sid, at |-> now,
               found |-> call_sid \in DOMAIN sessions, value |-> None]
    /\ UNCHANGED now

\* a delete_session that drops every entry
delete_session_all(call_sid) ==
    /\ sessions' = IF call_sid \in DOMAIN sessions THEN EmptyMap ELSE sessions
    /\ ret' = [op |-> "delete_session", call_sid |-> call_sid, at |-> now,
               found |-> call_sid \in DOMAIN sessions, value |-> None]
    /\ UNCHANGED now

delete_session(call_sid) ==
    /\ sessions' = IF call_sid \in DOMAIN sessions
                   THEN Without(sessions, {call_sid})
                   ELSE sessions
    /\ ret' = [op |-> "delete_session", call_sid |-> call_sid, at |-> now,
               found |-> call_sid \in DOMAIN sessions, value |-> None]
    /\ UNCHANGED now

cleanup_expired_sessions ==
    LET expired == {x \in DOMAIN sessions : ExpiredOnCleanup(sessions[x], now)}
    IN /\ sessions' = Without(sessions, expired)
       /\ ret' = [op |-> "cleanup_expired_sessions", call_sid |-> NoSid, at |-> now, found |-> FALSE,
                  value |-> Cardinality(expired)]
       /\ UNCHANGED now

\* a count that leaves out the entries idle for longer than the timeout
get_active_session_count_live ==
    /\ ret' = [op |-> "get_active_session_count", call_sid |-> NoSid, at |-> now,
               found |-> FALSE,
               value |-> Cardinality({x \in DOMAIN sessions :
                                         ~ExpiredOnGet(sessions[x], now)})]
    /\ UNCHANGED <<sessions, now>>

get_active_session_count ==
    /\ ret' = [op |-> "get_active_session_count", call_sid |-> NoSid, at |-> now, found |-> FALSE,
               value |-> Cardinality(DOMAIN sessions)]
    /\ UNCHANGED <<sessions, now>>

\* a minute passes
Tick ==
    /\ now < MaxTime
    /\ now' = now + 1
    /\ UNCHANGED <<sessions, ret>>

(***************************************************************************)
(* The compiled graph invoked again and again on the state it returned.    *)
(***************************************************************************)
MaxInvokes == 4

NoInvoke == [node |-> "none"]

GraphInit ==
    /\ gstate = initial_state("unknown")
    /\ ginvoke = NoInvoke

GraphInvoke(sup, rep) ==
    /\ Len(gstate.messages) < MaxInvokes
    /\ LET r == agent_invoke(gstate, sup, rep)
       IN /\ ~r.raised
          /\ gstate' = r.state
          /\ ginvoke' = [node |-> r.node, given |-> gstate, sup |-> sup,
                           calls |-> r.calls, supervised |-> r.supervised]

\* a user message is added to the carried state
GraphUserMessage(text) ==
    /\ Len(gstate.messages) < MaxInvokes
    /\ gstate' = [gstate EXCEPT !.messages = Append(@, HumanMessage(text))]
    /\ ginvoke' = NoInvoke

(***************************************************************************)
(* Specifications.                                                         *)
(***************************************************************************)
Init == WsInit /\ StoreInit /\ GraphInit

Next ==
    \/ \E s \in CallSids : initiate_call(s) /\ UNCHANGED <<storeVars, graphVars>>
    \/ \E c \in Conns, s \in CallSids : Connect(c, s) /\ UNCHANGED <<storeVars, graphVars>>
    \/ \E c \in Conns, frame \in Payloads : Receive(c, frame) /\ UNCHANGED <<storeVars, graphVars>>
    \/ \E c \in Conns : Process(c) /\ UNCHANGED <<storeVars, graphVars>>
    \/ \E c \in Conns, sup \in SupervisorReplies, rep \in WorkerReplies :
          AgentTurn(c, sup, rep) /\ UNCHANGED <<storeVars, graphVars>>
    \/ \E c \in Conns : Reply(c) /\ UNCHANGED <<storeVars, graphVars>>
    \/ \E c \in Conns : Send(c) /\ UNCHANGED <<storeVars, graphVars>>
    \/ \E c \in Conns : Disconnect(c) /\ UNCHANGED <<storeVars, graphVars>>
    \/ Shutdown /\ UNCHANGED <<storeVars, graphVars>>

Spec == Init /\ [][Next]_vars

NextStore ==
    \/ \E s \in CallSids : create_session(s) /\ UNCHANGED <<wsVars, graphVars>>
    \/ \E s \in CallSids : get_session(s) /\ UNCHANGED <<wsVars, graphVars>>
    \/ \E s \in CallSids : \E st \in SavedStates(s) :
          update_session(s, st) /\ UNCHANGED <<wsVars, graphVars>>
    \/ \E s \in CallSids : delete_session(s) /\ UNCHANGED <<wsVars, graphVars>>
    \/ cleanup_expired_sessions /\ UNCHANGED <<wsVars, graphVars>>
    \/ get_active_session_count /\ UNCHANGED <<wsVars, graphVars>>
    \/ Tick /\ UNCHANGED <<wsVars, graphVars>>

SpecStore == Init /\ [][NextStore]_vars

\* a behaviour of the application or a behaviour of the manager: main.py
\* never calls the manager, so a run exercises one of the two
NextEither ==
    \/ StoreInit /\ Next
    \/ WsInit /\ NextStore

SpecEither == Init /\ [][NextEither]_vars

NextGraph ==
    \/ \E sup \in SupervisorReplies, rep \in WorkerReplies :
          GraphInvoke(sup, rep) /\ UNCHANGED <<wsVars, storeVars>>
    \/ \E text \in {Strip(t) : t \in RawTexts} :
          GraphUserMessage(text) /\ UNCHANGED <<wsVars, storeVars>>

SpecGraph == Init /\ [][NextGraph]_vars

(***************************************************************************)
(* Properties.                                                             *)
(***************************************************************************)
InTurn(c) == pc[c] \in {"agent", "reply"}

\* the connection whose handler is between get_agent_response and the append
\* of the reply
Replying(c) == pc[c] = "reply" /\ lastTurn # NoTurn

\* C1: once should_end has become true in a turn of a call, every later turn
\* of that call in which the supervisor decides enters the end handler.
C1_ShouldEndRoutesToEnd ==
    \A c \in Conns :
        (Replying(c) /\ lastFinal[conn_sid[c]].should_end /\ lastTurn.out.node # "none")
            => lastTurn.out.node = "end"

\* C2: once the discovery handler has completed in a turn of a call, the
\* supervisor of every later turn of that call is given info_gathered = TRUE.
C2_InfoGatheredPersists ==
    \A c \in Conns :
        (Replying(c) /\ lastFinal[conn_sid[c]].info_gathered)
            => lastTurn.out.given.info_gathered

\* C3: a call's history alternates user, assistant, starting with user, and
\* holds two entries per turn (the reply of a turn in progress still missing),
\* whatever the replies are and however many connections serve the call.
C3_HistoryTwoPerTurn ==
    \A s \in DOMAIN SESSIONS :
        LET h == SESSIONS[s].history
            inTurn == \E c \in Conns : conn_sid[c] = s /\ InTurn(c)
        IN /\ Len(h) = IF inTurn THEN 2 * turns[s] - 1 ELSE 2 * turns[s]
           /\ \A i \in 1..Len(h) :
                 h[i].role = IF i % 2 = 1 THEN "user" ELSE "assistant"

\* two turns are over on a call served by two open connections, one of them
\* ended in the fallback apology
C3_Witness ==
    \E s \in DOMAIN SESSIONS :
        /\ turns[s] = 2
        /\ Len(SESSIONS[s].history) = 4
        /\ \E i \in 1..4 : SESSIONS[s].history[i].content = Apology
        /\ Cardinality({c \in Conns : conn_sid[c] = s /\ pc[c] \in {"receive", "send"}}) = 2

\* C4: while a handler is between the append of the utterance and the append
\* of the reply, no other handler of the same call is processing a frame or in
\* a turn, and the call's history still ends with that utterance.
C4_TurnsNeverInterleave ==
    \A c \in Conns :
        InTurn(c) =>
            LET h == SESSIONS[conn_sid[c]].history
            IN /\ \A d \in Conns \ {c} :
                     conn_sid[d] = conn_sid[c] => pc[d] \notin {"parse", "agent", "reply"}
               /\ h # <<>>
               /\ h[Len(h)] = [role |-> "user", content |-> user_text[c]]

\* a handler is in a turn while another connection of the same call has a
\* reply of an earlier turn still to send
C4_Witness ==
    \E c \in Conns, d \in Conns :
        /\ c # d
        /\ conn_sid[c] = conn_sid[d]
        /\ Replying(c)
        /\ pc[d] = "send"

\* C5: a turn whose model call failed, in the supervisor or in the handler,
\* answers with the fixed apology, and the stage, info_gathered, customer_info
\* and discussed_services of its state are those the turn started with.
C5_FailedTurnKeepsState ==
    (lastTurn # NoTurn /\ lastTurn.out.failed) =>
        /\ lastTurn.out.response = Apology
        /\ lastTurn.out.final.conversation_stage = lastTurn.out.given.conversation_stage
        /\ lastTurn.out.final.info_gathered = lastTurn.out.given.info_gathered
        /\ lastTurn.out.final.customer_info = lastTurn.out.given.customer_info
        /\ lastTurn.out.final.discussed_services = lastTurn.out.given.discussed_services

\* the model call of the scheduling handler failed after the supervisor had
\* routed to it
C5_Witness ==
    /\ lastTurn # NoTurn
    /\ lastTurn.out.failed
    /\ lastTurn.out.node = "scheduling"
    /\ lastTurn.out.final.next_worker = "schedule_callback"

\* a frame that is not JSON, not a JSON object, or carries no user text
Malformed(frame) ==
    frame.syntax # "object" \/ ExtractUserText(frame) = NoText

\* C6: a malformed frame is skipped: no history changes, the agent is not
\* invoked, nothing is sent, and the handler is back at receive_text.
C6_MalformedFrameSkipped ==
    [][\A c \in Conns :
          (pc[c] = "parse" /\ Malformed(raw[c])) =>
              /\ SESSIONS' = SESSIONS
              /\ lastTurn' = lastTurn
              /\ sent' = sent
              /\ pc'[c] = "receive"]_vars

\* C7: when the last WebSocket of a call disconnects, the call's session is
\* gone from SESSIONS.
C7_SessionRemovedOnDisconnect ==
    [][\A c \in Conns :
          (/\ pc[c] \in {"receive", "send"}
           /\ pc'[c] = "closed"
           /\ \A d \in Conns \ {c} : conn_sid[d] # conn_sid[c])
              => conn_sid[c] \notin DOMAIN SESSIONS']_vars

\* C8: the supervisor of the k-th turn of a call is given turn_count = k and
\* exactly the call's history, the current utterance once, as its last entry.
C8_TurnCountAndHistoryGiven ==
    \A c \in Conns :
        Replying(c) =>
            /\ lastTurn.out.given.turn_count = turns[conn_sid[c]]
            /\ lastTurn.out.given.messages = ToMessages(SESSIONS[conn_sid[c]].history)

\* C9: discussed_services of the state carried from one agent invocation to
\* the next never holds an entry twice.
C9_NoDuplicateServices ==
    \A i \in 1..Len(gstate.discussed_services), j \in 1..Len(gstate.discussed_services) :
        i # j => gstate.discussed_services[i] # gstate.discussed_services[j]

\* the service-info handler has run on a state whose discussed_services
\* already held the service type it recorded
C9_Witness ==
    /\ ginvoke.node = "service_info"
    /\ ginvoke.given.discussed_services = <<"General">>
    /\ gstate.discussed_services = <<"General">>
    /\ gstate.conversation_stage = "presentation"

StoreCall(op, s) ==
    /\ now' = now
    /\ <<sessions, ret>>' # <<sessions, ret>>
    /\ ret'.op = op
    /\ ret'.call_sid = s

\* C11: a get_session on an entry idle for no longer than the timeout returns
\* its state and sets its last-accessed time to the current time;
\* cleanup_expired_sessions removes exactly the entries idle for longer than
\* the timeout, leaves the others as they are and returns the number removed.
C11_GetRefreshesCleanupRemovesExpired ==
    [][/\ \A s \in CallSids :
            (/\ StoreCall("get_session", s)
             /\ s \in DOMAIN sessions
             /\ now - sessions[s].last_accessed <= TimeoutMinutes)
                => /\ ret'.value = sessions[s].state
                   /\ sessions' = [sessions EXCEPT ![s].last_accessed = now]
       /\ StoreCall("cleanup_expired_sessions", NoSid) =>
            /\ DOMAIN sessions' =
                  {x \in DOMAIN sessions : now - sessions[x].last_accessed <= TimeoutMinutes}
            /\ \A x \in DOMAIN sessions' : sessions'[x] = sessions[x]
            /\ ret'.value = Cardinality(DOMAIN sessions \ DOMAIN sessions')]_vars

\* a cleanup has removed one entry and kept another that was idle for exactly
\* the timeout
C11_Witness ==
    /\ ret.op = "cleanup_expired_sessions"
    /\ ret.at = now
    /\ ret.value = 1
    /\ \E x \in DOMAIN sessions : now - sessions[x].last_accessed = TimeoutMinutes

\* C12: create_session on any id, also one that has a live entry, leaves the
\* id with the initial state and returns it, and a get_session that follows
\* within the timeout returns that initial state.
C12_CreateResets ==
    [][\A s \in CallSids :
          /\ StoreCall("create_session", s) =>
                /\ sessions'[s] = [state |-> initial_state(s), last_accessed |-> now]
                /\ ret'.value = initial_state(s)
                /\ \A x \in DOMAIN sessions \ {s} : sessions'[x] = sessions[x]
          /\ (/\ ret.op = "create_session" /\ ret.call_sid = s
              /\ StoreCall("get_session", s)
              /\ now - sessions[s].last_accessed <= TimeoutMinutes)
                => ret'.value = initial_state(s)]_vars

\* a create_session was made, later than the start, on an id that had an
\* entry, and the id now has the initial state
C12_Witness ==
    /\ ret.op = "create_session"
    /\ ret.found
    /\ now > 0
    /\ sessions[ret.call_sid] = [state |-> initial_state(ret.call_sid), last_accessed |-> now]

\* C13: routing from the classifier's answer to a handler is a fixed total
\* table: gather_information, provide_service_info, qualify_customer,
\* schedule_callback and end_call enter the discovery, service-info,
\* qualification, scheduling and end handler, and no tool call or any other
\* label enters the service-info handler.
C13_RoutingTable ==
    (lastTurn # NoTurn /\ lastTurn.out.sup.kind # "error") =>
        LET label == IF lastTurn.out.sup.kind = "tool" THEN lastTurn.out.sup.name
                     ELSE Absent
        IN lastTurn.out.node =
              CASE label = "gather_information" -> "gather_information"
                [] label = "provide_service_info" -> "service_info"
                [] label = "qualify_customer" -> "qualification"
                [] label = "schedule_callback" -> "scheduling"
                [] label = "end_call" -> "end"
                [] OTHER -> "service_info"

\* the classifier named a tool outside the five and the service-info handler
\* answered the turn
C13_Witness ==
    \E c \in Conns :
        /\ Replying(c)
        /\ lastTurn.out.sup.kind = "tool"
        /\ lastTurn.out.sup.name = "unknown_tool"
        /\ lastTurn.out.node = "service_info"
        /\ lastTurn.out.response \in Replies

\* C14: in a turn answered by the service-info handler, the handler uses the
\* service_type of the supervisor's tool call (General when there is none):
\* afterwards discussed_services contains it, is exactly that one entry when
\* it was empty before, and conversation_stage is presentation.
C14_ServiceTypeUsed ==
    (lastTurn # NoTurn /\ lastTurn.out.node = "service_info" /\ ~lastTurn.out.failed) =>
        LET service_type == IF lastTurn.out.sup.service_type = Absent THEN "General"
                            ELSE lastTurn.out.sup.service_type
            discussed == lastTurn.out.final.discussed_services
        IN /\ \E i \in 1..Len(discussed) : discussed[i] = service_type
           /\ lastTurn.out.given.discussed_services = <<>> => discussed = <<service_type>>
           /\ lastTurn.out.final.conversation_stage = "presentation"

\* C15: the first turn of a call, when no model call fails, is answered by the
\* discovery handler and leaves info_gathered true and conversation_stage
\* discovery.
C15_FirstUtteranceDiscovery ==
    \A c \in Conns :
        (/\ Replying(c)
         /\ turns[conn_sid[c]] = 1
         /\ ~lastTurn.out.given.info_gathered
         /\ ~lastTurn.out.given.should_end
         /\ ~lastTurn.out.failed)
            => /\ lastTurn.out.node = "gather_information"
               /\ lastTurn.out.final.info_gathered
               /\ lastTurn.out.final.conversation_stage = "discovery"

\* C15 as amended: on the first turn of a call, when the classifier's tool
\* call names gather_information and no model call fails, the discovery
\* handler answers the turn and leaves info_gathered true and
\* conversation_stage discovery.
C15_DiscoveryWhenChosen ==
    \A c \in Conns :
        (/\ Replying(c)
         /\ turns[conn_sid[c]] = 1
         /\ lastTurn.out.sup.kind = "tool"
         /\ lastTurn.out.sup.name = "gather_information"
         /\ ~lastTurn.out.failed)
            => /\ ~lastTurn.out.given.info_gathered
               /\ ~lastTurn.out.given.should_end
               /\ lastTurn.out.node = "gather_information"
               /\ lastTurn.out.response \in Replies
               /\ lastTurn.out.final.info_gathered
               /\ lastTurn.out.final.conversation_stage = "discovery"

\* the first turn of a call was answered by the discovery handler
C15_Witness ==
    \E c \in Conns :
        /\ Replying(c)
        /\ turns[conn_sid[c]] = 1
        /\ lastTurn.out.sup.name = "gather_information"
        /\ lastTurn.out.node = "gather_information"
        /\ lastTurn.out.final.info_gathered
        /\ lastTurn.out.final.conversation_stage = "discovery"

\* C16: the discovery handler entered with info_gathered true makes no model
\* call, appends no message and leaves conversation_stage and info_gathered
\* as they were; entered with info_gathered false it makes one model call,
\* appends one agent message, and sets info_gathered and the stage discovery.
C16_DiscoveryHandler ==
    ginvoke.node = "gather_information" =>
        IF ginvoke.given.info_gathered
        THEN /\ ginvoke.calls = 0
             /\ gstate.messages = ginvoke.given.messages
             /\ gstate.conversation_stage = ginvoke.given.conversation_stage
             /\ gstate.info_gathered
        ELSE /\ ginvoke.calls = 1
             /\ \E t \in Replies :
                   gstate.messages = Append(ginvoke.given.messages, AIMessage(t))
             /\ gstate.info_gathered
             /\ gstate.conversation_stage = "discovery"

\* the discovery handler was entered after the service-info handler had moved
\* the stage on, with info_gathered already true
C16_Witness ==
    /\ ginvoke.node = "gather_information"
    /\ ginvoke.given.info_gathered
    /\ ginvoke.given.conversation_stage = "presentation"
    /\ gstate.conversation_stage = "presentation"

\* C17: when the supervisor returns schedule_callback the scheduling handler
\* makes one model call, appends one agent message, sets conversation_stage
\* to closing and should_end to true, and every other field of the state is
\* the one the invocation was given (next_worker being the supervisor's).
C17_SchedulingFrame ==
    (ginvoke.node # "none" /\ ginvoke.sup.kind = "tool"
        /\ ginvoke.sup.name = "schedule_callback") =>
        /\ ginvoke.node = "scheduling"
        /\ ginvoke.calls = 1
        /\ \E t \in Replies :
              gstate = [ginvoke.given EXCEPT !.messages = Append(@, AIMessage(t)),
                                             !.conversation_stage = "closing",
                                             !.should_end = TRUE,
                                             !.next_worker = "schedule_callback"]

\* the scheduling handler ran on a state that had info gathered and a service
\* discussed
C17_Witness ==
    /\ ginvoke.node = "scheduling"
    /\ ginvoke.given.info_gathered
    /\ ginvoke.given.discussed_services = <<"General">>
    /\ ~ginvoke.given.should_end
    /\ gstate.should_end
    /\ gstate.discussed_services = <<"General">>

\* C18: after the end handler has run in a turn of a call, no later utterance
\* of that call gets a supervisor decision or a handler.
C18_EndIsTerminal ==
    \A c \in Conns : Replying(c) => ~lastFinal[conn_sid[c]].ended

\* C19: the conversation_stage a turn starts with and the one it ends with
\* are among greeting, discovery, presentation, qualification, closing and
\* ended, and a turn that starts in ended ends in ended.
C19_StageInEnum ==
    lastTurn # NoTurn =>
        /\ lastTurn.out.given.conversation_stage \in
              {"greeting", "discovery", "presentation", "qualification", "closing", "ended"}
        /\ lastTurn.out.final.conversation_stage \in
              {"greeting", "discovery", "presentation", "qualification", "closing", "ended"}
        /\ lastTurn.out.given.conversation_stage = "ended"
              => lastTurn.out.final.conversation_stage = "ended"

\* C20: no failure of the supervisor's or a handler's model call leaves
\* get_agent_response as an exception: it returns a reply text; the handler
\* appends that text, reaches send_text, and after the send is back at
\* receive_text on the same call.
C20_AgentFailureAnswered ==
    [][\A c \in Conns :
          /\ pc[c] = "reply" =>
                /\ ~lastTurn.out.escaped
                /\ lastTurn.out.response \in Replies \cup {Apology, NoAIText}
                /\ pc'[c] # "reply" =>
                      LET h == SESSIONS'[conn_sid[c]].history
                      IN /\ pc'[c] = "send"
                         /\ conn_sid'[c] = conn_sid[c]
                         /\ h # <<>>
                         /\ h[Len(h)] = [role |-> "assistant",
                                         content |-> lastTurn.out.response]
          /\ (pc[c] = "send" /\ sent'[c] = sent[c] + 1) =>
                /\ pc'[c] = "receive"
                /\ conn_sid'[c] = conn_sid[c]]_vars

\* a handler has sent the apology of a failed turn and is back at
\* receive_text
C20_Witness ==
    \E c \in Conns :
        /\ pc[c] = "receive"
        /\ sent[c] = 1
        /\ turns[conn_sid[c]] = 1
        /\ SESSIONS[conn_sid[c]].history =
              <<[role |-> "user", content |-> "hello"],
                [role |-> "assistant", content |-> Apology]>>

\* C21: a WebSocket that connects for a call_sid without a session gets a new
\* session with empty history; one that connects for a call_sid that has a
\* session leaves that session, history included, as it is; no other
\* session changes either way.
C21_ConnectGetsOrCreates ==
    [][\A c \in Conns :
          (pc[c] = "closed" /\ pc'[c] = "receive") =>
              LET s == conn_sid'[c]
              IN /\ DOMAIN SESSIONS' = DOMAIN SESSIONS \cup {s}
                 /\ \A x \in DOMAIN SESSIONS : SESSIONS'[x] = SESSIONS[x]
                 /\ s \notin DOMAIN SESSIONS =>
                       SESSIONS'[s] = [call_sid |-> s, phone_number |-> "unknown",
                                       history |-> <<>>]]_vars

\* a connection that has not sent anything yet waits for a frame on a call
\* set up by initiate_call whose history already holds a turn
C21_Witness ==
    \E c \in Conns :
        /\ pc[c] = "receive"
        /\ sent[c] = 0
        /\ SESSIONS[conn_sid[c]].phone_number = Phone
        /\ Len(SESSIONS[conn_sid[c]].history) = 2

\* C22: create_session, get_session, update_session and delete_session on a
\* call id leave the entry (state and last-accessed time) of every other id
\* as it is, and a step of a WebSocket handler serving one call leaves the
\* history of every other call as it is.
C22_OtherCallsUntouched ==
    [][/\ \A A \in CallSids, B \in DOMAIN sessions :
             (/\ A # B
              /\ \E op \in {"create_session", "get_session", "update_session",
                            "delete_session"} : StoreCall(op, A))
                => /\ B \in DOMAIN sessions'
                   /\ sessions'[B] = sessions[B]
       /\ \A c \in Conns, B \in DOMAIN SESSIONS :
             (pc[c] # "closed" /\ pc'[c] # pc[c] /\ conn_sid[c] # B)
                => /\ B \in DOMAIN SESSIONS'
                   /\ SESSIONS'[B].history = SESSIONS[B].history]_vars

\* an entry that existed was deleted while another id held a saved state
C22_Witness ==
    /\ ret.op = "delete_session"
    /\ ret.found
    /\ ret.at = now
    /\ ret.call_sid \notin DOMAIN sessions
    /\ \E B \in DOMAIN sessions : sessions[B].state.info_gathered

\* C23: update_session and delete_session on a call id that has no entry leave
\* the store as it is, so a save after the delete does not bring the session
\* back, and after delete_session the id has no entry whether or not it had
\* one before.
C23_NoResurrection ==
    [][\A s \in CallSids :
          /\ (/\ s \notin DOMAIN sessions
              /\ StoreCall("update_session", s) \/ StoreCall("delete_session", s))
                => /\ sessions' = sessions
                   /\ ret'.value = None
          /\ StoreCall("delete_session", s) => s \notin DOMAIN sessions'
          /\ (/\ ret.op = "delete_session" /\ ret.call_sid = s
              /\ StoreCall("update_session", s))
                => s \notin DOMAIN sessions']_vars

\* a save was made, later than the start, for an id without an entry, and the
\* id still has none while the store holds another session
C23_Witness ==
    /\ ret.op = "update_session"
    /\ ~ret.found
    /\ ret.at = now
    /\ now > 0
    /\ ret.call_sid \notin DOMAIN sessions
    /\ sessions # EmptyMap

\* C24: every agent invocation ends after one supervisor run and, when the
\* supervisor returned, one worker run: no worker leads back to the
\* supervisor, and the turn makes at most two model calls.
C24_OneSupervisorOneWorker ==
    lastTurn # NoTurn =>
        /\ lastTurn.out.supervisors = 1
        /\ lastTurn.out.workers = IF lastTurn.out.sup.kind = "error" THEN 0 ELSE 1
        /\ lastTurn.out.model_calls <= 2
        /\ ~lastTurn.out.failed => lastTurn.out.model_calls = 2

\* a turn without tool call was answered by the service-info handler after
\* two model calls
C24_Witness ==
    \E c \in Conns :
        /\ Replying(c)
        /\ lastTurn.out.sup.kind = "none"
        /\ lastTurn.out.node = "service_info"
        /\ ~lastTurn.out.failed
        /\ lastTurn.out.model_calls = 2

\* C25: the state the supervisor returns differs from the state it was given
\* in next_worker and service_type at most: messages, conversation_stage,
\* info_gathered, should_end, turn_count, customer_info, pain_points,
\* discussed_services and every other field are the ones it was given.
C25_SupervisorFrame ==
    ginvoke.node # "none" =>
        ginvoke.supervised =
            [ginvoke.given EXCEPT !.next_worker = ginvoke.supervised.next_worker,
                                  !.service_type = ginvoke.supervised.service_type]

\* the supervisor stored a service_type and a new next_worker on a state
\* that had info gathered and a stage set by a handler
C25_Witness ==
    /\ ginvoke.node = "service_info"
    /\ ginvoke.sup.service_type = "AI"
    /\ ginvoke.supervised.service_type = "AI"
    /\ ginvoke.supervised.next_worker # ginvoke.given.next_worker
    /\ ginvoke.given.info_gathered
    /\ ginvoke.supervised.conversation_stage = "discovery"

\* C26: on a connection, a frame with user text starts a turn, and the
\* handler reads its next frame only after that turn has sent exactly one
\* text frame (or the connection has ended): receive_text is reached from
\* the turn only through the send, the count of frames sent grows by one
\* there and nowhere else, so replies go out one per utterance in arrival
\* order.
C26_OneReplyPerUtterance ==
    [][\A c \in Conns :
          /\ (pc[c] = "parse" /\ FrameOutcome(raw[c]) = "turn")
                => pc'[c] \in {"parse", "agent"}
          /\ pc[c] = "agent" => pc'[c] \in {"agent", "reply"}
          /\ pc[c] = "reply" => pc'[c] \in {"reply", "send"}
          /\ pc[c] = "send" =>
                \/ pc'[c] \in {"send", "closed"}
                \/ pc'[c] = "receive" /\ sent'[c] = sent[c] + 1
          /\ (pc'[c] = "parse" /\ pc[c] # "parse") => pc[c] = "receive"
          /\ sent'[c] # sent[c] =>
                \/ pc[c] = "send" /\ pc'[c] = "receive" /\ sent'[c] = sent[c] + 1
                \/ pc'[c] = "closed" /\ sent'[c] = 0]_vars

\* one connection has answered two utterances of its call and waits for the
\* next frame
C26_Witness ==
    \E c \in Conns :
        /\ pc[c] = "receive"
        /\ sent[c] = 2
        /\ turns[conn_sid[c]] = 2
        /\ Len(SESSIONS[conn_sid[c]].history) = 4

\* C27: the text get_agent_response returns for a turn that did not fail is
\* the agent message appended in that turn: the messages the graph returns
\* are the ones it was given followed by one agent message, and that
\* message's content is the text returned, never a message of the supplied
\* history and never the fallback for a missing agent message.
C27_ReplyIsThisTurns ==
    (lastTurn # NoTurn /\ ~lastTurn.out.failed) =>
        LET given == lastTurn.out.given.messages
            final == lastTurn.out.final.messages
        IN /\ Len(final) = Len(given) + 1
           /\ \A i \in 1..Len(given) : final[i] = given[i]
           /\ final[Len(final)] = AIMessage(lastTurn.out.response)
           /\ lastTurn.out.response # NoAIText

\* a second turn, whose supplied history holds the first turn's reply, was
\* answered by the discovery handler
C27_Witness ==
    \E c \in Conns :
        /\ Replying(c)
        /\ turns[conn_sid[c]] = 2
        /\ SelectType(lastTurn.out.given.messages, "ai") # <<>>
        /\ lastTurn.out.node = "gather_information"
        /\ ~lastTurn.out.failed
        /\ lastTurn.out.workers = 1

\* C28: an entry idle for longer than the timeout is, after any call other
\* than a create_session for its id, gone, still idle for longer than the
\* timeout, or holding another state, and get_session does not return its
\* state: the expired state is not retrievable again.
C28_ExpiredNeverReturned ==
    [][\A s \in DOMAIN sessions :
          (ExpiredOnGet(sessions[s], now) /\ ~StoreCall("create_session", s)) =>
              /\ (s \in DOMAIN sessions' /\ sessions'[s].state = sessions[s].state)
                    => ExpiredOnGet(sessions'[s], now')
              /\ ~(StoreCall("get_session", s) /\ ret'.value = sessions[s].state)]_vars

\* C29: get_session and cleanup_expired_sessions agree on expiry: cleanup
\* removes an entry exactly when get_session's test calls it expired,
\* get_session returns None for an entry exactly when cleanup's test calls it
\* expired, and an entry idle for exactly the timeout is kept by cleanup and
\* returned by get_session.
C29_ExpiryTestsAgree ==
    [][/\ StoreCall("cleanup_expired_sessions", NoSid) =>
             \A s \in DOMAIN sessions :
                 /\ s \notin DOMAIN sessions' <=> ExpiredOnGet(sessions[s], now)
                 /\ now - sessions[s].last_accessed = TimeoutMinutes
                       => s \in DOMAIN sessions'
       /\ \A s \in DOMAIN sessions :
             StoreCall("get_session", s) =>
                 /\ ret'.value = None <=> ExpiredOnCleanup(sessions[s], now)
                 /\ now - sessions[s].last_accessed = TimeoutMinutes
                       => ret'.value = sessions[s].state]_vars

\* cleanup has just run with an entry idle for exactly the timeout and has
\* removed nothing
C29_Witness ==
    /\ ret.op = "cleanup_expired_sessions"
    /\ ret.at = now
    /\ ret.value = 0
    /\ \E x \in DOMAIN sessions : now - sessions[x].last_accessed = TimeoutMinutes

\* C30: in the state a turn starts with and in the state it ends with,
\* customer_info, pain_points and qualification_data are empty and
\* is_qualified_lead is false, whichever handler ran, the qualification
\* handler included.
C30_LeadFieldsNeverSet ==
    lastTurn # NoTurn =>
        \A st \in {lastTurn.out.given, lastTurn.out.final} :
            /\ st.customer_info = <<>>
            /\ st.pain_points = <<>>
            /\ st.qualification_data = <<>>
            /\ ~st.is_qualified_lead

\* the qualification handler answered a turn
C30_Witness ==
    \E c \in Conns :
        /\ Replying(c)
        /\ lastTurn.out.node = "qualification"
        /\ ~lastTurn.out.failed
        /\ lastTurn.out.final.conversation_stage = "qualification"
        /\ ~lastTurn.out.final.is_qualified_lead

====
